---- MODULE Spec2Model ----
(***************************************************************************)
(* A model of pystata's command coordinator, src/stata.py: run, the two    *)
(* workers _stata_wrk1 and _stata_wrk2, the nested mata and python         *)
(* sessions, the engine's output buffer and the background outputter.      *)
(*                                                                         *)
(* Text is a sequence of one-character strings, so that splitlines, strip, *)
(* concatenation and slicing are computed as Python computes them.         *)
(* An output chunk is a record [u, k]: the k-th chunk emitted by the u-th  *)
(* worker execute of the current run call.                                 *)
(***************************************************************************)
EXTENDS Integers, Sequences, FiniteSets, TLC

\* ------------------------------------------------------------- bounds

\* Chunks one execute call may leave in the engine's output buffer.
MaxChunks == 2
\* Lines other than `end` a user may type in one nested session.
MaxLines == 2
\* Outputter threads told to stop that may be alive at the same time.
MaxZombies == 1

\* Interrupts that may arrive during one run call.
MaxInterrupts == 1

\* ---------------------------------------------------------- constants

\* The engine's "needs more input" return code.
RC_CONT == 3000
\* The return codes the engine answers with: success, continuation, and 498
\* standing for every other non-zero code.
ReturnCodes == {0, RC_CONT, 498}

\* ---------------------------------------------------------------- text

NL == "\n"
Whitespace == {" ", NL, "\t"}

S_mata == <<"m", "a", "t", "a">>
S_mataC == <<"m", "a", "t", "a", ":">>
S_python == <<"p", "y", "t", "h", "o", "n">>
S_pythonC == <<"p", "y", "t", "h", "o", "n", ":">>
S_end == <<"e", "n", "d">>
S_stataC == <<"s", "t", "a", "t", "a", ":">>
P_mata1 == <<":", " ">>
P_mata2 == <<">", " ">>
P_py1 == <<">", ">", ">", " ">>
P_py2 == <<".", ".", ".", " ">>

\* The index of the first line break of s, 0 when it has none.
FirstNL(s) ==
    IF \E i \in 1..Len(s) : s[i] = NL
    THEN CHOOSE i \in 1..Len(s) : s[i] = NL /\ \A j \in 1..(i - 1) : s[j] # NL
    ELSE 0

RECURSIVE SplitLines(_)
\* str.splitlines(): the lines of s without their line breaks; a final line
\* break opens no further line.
SplitLines(s) ==
    IF s = <<>> THEN <<>>
    ELSE LET i == FirstNL(s) IN
         IF i = 0 THEN <<s>>
         ELSE <<SubSeq(s, 1, i - 1)>> \o SplitLines(SubSeq(s, i + 1, Len(s)))

RECURSIVE LStrip(_)
LStrip(s) ==
    IF s # <<>> /\ Head(s) \in Whitespace THEN LStrip(Tail(s)) ELSE s

RECURSIVE RStrip(_)
RStrip(s) ==
    IF s # <<>> /\ s[Len(s)] \in Whitespace
    THEN RStrip(SubSeq(s, 1, Len(s) - 1)) ELSE s

\* str.strip()
Strip(s) == RStrip(LStrip(s))

\* s[:n]
Prefix(s, n) == SubSeq(s, 1, IF Len(s) < n THEN Len(s) ELSE n)

\* The number of characters of s equal to ch.
Count(s, ch) == Cardinality({i \in 1..Len(s) : s[i] = ch})

\* -------------------------------------------------------------- inputs

\* The command texts run is called with.
Cmds ==
    { <<>>,
      <<"x">>,
      <<"x", NL>>,
      <<" ", "m", "a", "t", "a">>,
      S_mataC,
      S_python,
      S_pythonC,
      <<"x", NL, "y">>,
      <<"m", "a", "t", "a", NL, "x">> }

\* The inline arguments run is called with; "bad" is any non-boolean.
InlineArgs == {"None", "True", "False", "bad"}

\* The lines a user types at a session prompt.
MataLines == { <<"x">>, <<"y">>, <<" ">> \o S_end }
PyLines == { <<"x">>, <<"(">>, <<")">>, S_end, S_stataC \o <<"(">> }

\* --------------------------------------------------------------- state

VARIABLES
    pc,       \* where the calling thread is
    args,     \* the arguments of the current (or last) run call
    wk,       \* the current worker call: _stata_wrk1 or _stata_wrk2
    sess,     \* the locals of run's nested-session loop
    rc2,      \* the module-level rc2
    buf,      \* the engine's output buffer, oldest chunk first
    eng,      \* the engine: busy while an execute is in flight
    elog,     \* the engine operations the calling thread issued in this run
    out,      \* what this run printed, in order
    files,    \* the temporary files this run wrote, in order
    outputter,\* the background outputter of the current worker call
    queue,    \* the LifoQueue shared with the outputter
    zombies,  \* outputters of earlier worker calls, told to stop, still alive
    res       \* how the last run call ended

vars == <<pc, args, wk, sess, rc2, buf, eng, elog, out, files, outputter,
          queue, zombies, res>>

NoChunk == [u |-> 0, k |-> 0]
NoCmd == [verb |-> "none", quiet |-> FALSE, text |-> <<>>, file |-> 0,
          echo |-> FALSE]

\* The command text handed to StataSO_Execute: "qui " + line, "include " +
\* tmpf, "qui include " + tmpf, "qui _gr_list on", "qui _gr_list off".
Direct(quiet, line, echo) ==
    [verb |-> "direct", quiet |-> quiet, text |-> line, file |-> 0,
     echo |-> echo]
Include(quiet, tmpf) ==
    [verb |-> "include", quiet |-> quiet, text |-> <<>>, file |-> tmpf,
     echo |-> FALSE]
GrList(onoff) ==
    [verb |-> onoff, quiet |-> TRUE, text |-> <<>>, file |-> 0,
     echo |-> FALSE]

EngOp(op, cmd) == [op |-> op, cmd |-> cmd]
Printed(kind, c, aux) == [kind |-> kind, c |-> c, aux |-> aux]

NoWk ==
    [fn |-> 0, cmd |-> NoCmd, real_cmd |-> <<>>, colon |-> FALSE, mode |-> 0,
     rc |-> 0, output |-> NoChunk, interrupted |-> FALSE, exit |-> "none",
     breaks |-> 0]

NoSess ==
    [kind |-> "none", input_cmd |-> <<>>, has_colon |-> FALSE,
     incmds1 |-> <<>>, incmds2 |-> <<>>, inprompt |-> <<>>, shown |-> <<>>,
     typed |-> 0, units |-> 0, closed |-> FALSE, did |-> "none"]

NoOutputter == [st |-> "none", rc |-> 0, err |-> FALSE, payload |-> <<>>]

\* The engine as a run call finds it: no execute in flight.  serial counts
\* the worker executes of the run call, interrupts the interrupts it took.
NoEng == [busy |-> FALSE, emitted |-> 0, serial |-> 0, interrupts |-> 0]

NoArgs ==
    [cmd |-> <<>>, quietly |-> FALSE, inline |-> FALSE, stream |-> FALSE]

NoRes == [outcome |-> "none", kind |-> "none", payload |-> <<>>]

Init ==
    /\ pc = "idle"
    /\ args = NoArgs
    /\ wk = NoWk
    /\ sess = NoSess
    /\ rc2 = 0
    /\ buf = <<>>
    /\ eng = NoEng
    /\ elog = <<>>
    /\ out = <<>>
    /\ files = <<>>
    /\ outputter = NoOutputter
    /\ queue = <<>>
    /\ zombies = 0
    /\ res = NoRes

\* ------------------------------------------------------------- engine

\* config.get_output(): the next buffered chunk, NoChunk (the empty string)
\* when nothing is buffered.
PollChunk(b) == IF b = <<>> THEN NoChunk ELSE Head(b)
AfterPoll(b) == IF b = <<>> THEN <<>> ELSE Tail(b)

\* The engine runs the command of the worker call and buffers a chunk.
EngineEmit ==
    /\ pc = "w_exec"
    /\ eng.busy
    /\ eng.emitted < MaxChunks
    /\ buf' = Append(buf, [u |-> eng.serial, k |-> eng.emitted + 1])
    /\ eng' = [eng EXCEPT !.emitted = @ + 1]
    /\ UNCHANGED <<pc, args, wk, sess, rc2, elog, out, files, outputter,
                   queue, zombies, res>>

\* ------------------------------------------------------------ outputter

\* Whether the outputter reports return code rc as an execution error: any
\* non-zero code, except the continuation code inside a nested session
\* (mode 2 or 3).
OutputterIsError(rc, mode) == rc # 0 /\ ~(rc = RC_CONT /\ mode \in {2, 3})

RECURSIVE StreamAll(_)
StreamAll(b) ==
    IF b = <<>> THEN <<>>
    ELSE <<Printed("stream", Head(b), "")>> \o StreamAll(Tail(b))

\* RepeatTimer.run, one wake-up with no return code queued: drain what is
\* buffered and forward it.
OutputterTick ==
    /\ outputter.st = "running"
    /\ queue = <<>>
    /\ buf # <<>>
    /\ out' = out \o StreamAll(buf)
    /\ buf' = <<>>
    /\ UNCHANGED <<pc, args, wk, sess, rc2, eng, elog, files, outputter,
                   queue, zombies, res>>

\* RepeatTimer.run, the wake-up that finds the return code queued: one
\* final drain, then stop.
OutputterFinal ==
    /\ outputter.st = "running"
    /\ queue # <<>>
    /\ LET rc == queue[Len(queue)]
           bad == OutputterIsError(rc, wk.mode)
       IN /\ outputter' = [st |-> "stopped", rc |-> rc, err |-> bad,
                           payload |-> IF bad THEN buf ELSE <<>>]
          /\ out' = IF bad \/ rc = RC_CONT THEN out ELSE out \o StreamAll(buf)
    /\ queue' = SubSeq(queue, 1, Len(queue) - 1)
    /\ buf' = <<>>
    /\ UNCHANGED <<pc, args, wk, sess, rc2, eng, elog, files, zombies, res>>

\* RepeatTimer.run after done(): the thread wakes, finds itself stopped and
\* ends without draining.
OutputterStop ==
    /\ outputter.st = "cancelled"
    /\ outputter' = [outputter EXCEPT !.st = "stopped"]
    /\ UNCHANGED <<pc, args, wk, sess, rc2, buf, eng, elog, out, files,
                   queue, zombies, res>>

\* The same, for the outputter of an earlier worker call.
ZombieStop ==
    /\ zombies > 0
    /\ zombies' = zombies - 1
    /\ UNCHANGED <<pc, args, wk, sess, rc2, buf, eng, elog, out, files,
                   outputter, queue, res>>

\* RepeatTimer.done(): mark the timer stopped.  A thread that is still
\* running is not waited for: it ends on its own, at its next wake-up.
OutputterDone(o) ==
    IF o.st = "running" THEN [o EXCEPT !.st = "cancelled"] ELSE o
\* 1 for a thread that has not ended, 0 otherwise.
StillAlive(o) == IF o.st \in {"running", "cancelled"} THEN 1 ELSE 0

\* -------------------------------------------------------------- workers

\* Where run continues when a worker returns.
AfterWrk == IF sess.kind = "none" THEN "r_finish" ELSE "s_after"

SystemError(kind, payload) ==
    [outcome |-> "SystemError", kind |-> kind, payload |-> payload]

\* _print_no_streaming_output(output, newline)
PrintNoStreaming(c, newline) ==
    Printed("plain", c, IF newline THEN "nl" ELSE "")

\* stout.output_get_interactive_result(output, real_cmd, colon, mode),
\* then _print_no_streaming_output(.., False)
PrintInteractive(c, mode) ==
    Printed("interactive", c, IF mode = 2 THEN "mata" ELSE "python")

\* queue = LifoQueue(); outputter = RepeatTimer(..); outputter.start()
OutputterStart ==
    /\ pc = "w_begin"
    /\ queue' = <<>>
    /\ outputter' = [NoOutputter EXCEPT !.st = "running"]
    /\ zombies' = zombies + StillAlive(outputter)
    /\ pc' = "w_call"
    /\ UNCHANGED <<args, wk, sess, rc2, buf, eng, elog, out, files, res>>

\* with RedirectOutput(..): StataSO_Execute(cmd, echo) is entered.
ExecInvoke ==
    /\ pc = "w_call"
    /\ eng' = [eng EXCEPT !.busy = TRUE, !.emitted = 0, !.serial = @ + 1]
    /\ elog' = Append(elog, EngOp("exec", wk.cmd))
    /\ pc' = "w_exec"
    /\ UNCHANGED <<args, wk, sess, rc2, buf, out, files, outputter, queue,
                   zombies, res>>

\* StataSO_Execute returns rc, which is stored in rc1 (_stata_wrk1) or in
\* the global rc2 (_stata_wrk2).
ExecReturn(rc) ==
    /\ pc = "w_exec"
    /\ eng.busy
    /\ eng' = [eng EXCEPT !.busy = FALSE]
    /\ wk' = [wk EXCEPT !.rc = rc]
    /\ rc2' = IF wk.fn = 2 THEN rc ELSE rc2
    /\ pc' = IF args.stream THEN "w_put" ELSE "w_poll"
    /\ UNCHANGED <<args, sess, buf, elog, out, files, outputter, queue,
                   zombies, res>>

\* QueuePut with the return code put twice.
QueuePut_Twice ==
    /\ pc = "w_put"
    /\ queue' = Append(Append(queue, wk.rc), wk.rc)
    /\ pc' = "w_join"
    /\ UNCHANGED <<args, wk, sess, rc2, buf, eng, elog, out, files,
                   outputter, zombies, res>>

\* queue.put(rc)
QueuePut ==
    /\ pc = "w_put"
    /\ queue' = Append(queue, wk.rc)
    /\ pc' = "w_join"
    /\ UNCHANGED <<args, wk, sess, rc2, buf, eng, elog, out, files,
                   outputter, zombies, res>>

\* outputter.join(); outputter.done(): the join returns once the thread has
\* ended, and hands on the error the outputter found.
JoinOutputter ==
    /\ pc = "w_join"
    /\ outputter.st = "stopped"
    /\ IF outputter.err
       THEN /\ pc' = "returned"
            /\ wk' = [wk EXCEPT !.exit = "raised"]
            /\ res' = SystemError("text", outputter.payload)
       ELSE /\ pc' = AfterWrk
            /\ wk' = [wk EXCEPT !.exit = "normal"]
            /\ res' = res
    /\ UNCHANGED <<args, sess, rc2, buf, eng, elog, out, files, outputter,
                   queue, zombies>>

\* The places of a worker's try block at which KeyboardInterrupt is raised.
InterruptPoints ==
    IF args.stream THEN {"w_call", "w_exec", "w_put", "w_join"}
    ELSE {"w_call", "w_exec", "w_poll", "w_loop"}

\* KeyboardInterrupt with the StataSO_SetBreak() of lines 68 and 107 lost
\* from the streaming handlers.
KeyboardInterrupt_NoBreak ==
    /\ pc \in InterruptPoints
    /\ eng.interrupts < MaxInterrupts
    /\ args.stream => zombies + 1 <= MaxZombies
    /\ outputter' = IF args.stream THEN OutputterDone(outputter) ELSE outputter
    /\ elog' = IF args.stream THEN elog
               ELSE Append(elog, EngOp("break", NoCmd))
    /\ out' = Append(out, Printed("notice", NoChunk, "--break--"))
    /\ eng' = [eng EXCEPT !.busy = FALSE, !.interrupts = @ + 1]
    /\ wk' = [wk EXCEPT !.interrupted = TRUE, !.exit = "normal",
                        !.breaks = IF args.stream THEN @ ELSE @ + 1]
    /\ pc' = AfterWrk
    /\ UNCHANGED <<args, sess, rc2, buf, files, queue, zombies, res>>

\* except KeyboardInterrupt: outputter.done() (streaming only);
\* StataSO_SetBreak(); print the notice; the worker returns normally.  An
\* interrupt raised while the execute is in flight leaves its return code
\* unassigned.
KeyboardInterrupt ==
    /\ pc \in InterruptPoints
    /\ eng.interrupts < MaxInterrupts
    /\ args.stream => zombies + 1 <= MaxZombies
    /\ outputter' = IF args.stream THEN OutputterDone(outputter) ELSE outputter
    /\ elog' = Append(elog, EngOp("break", NoCmd))
    /\ out' = Append(out, Printed("notice", NoChunk, "--break--"))
    /\ eng' = [eng EXCEPT !.busy = FALSE, !.interrupts = @ + 1]
    /\ wk' = [wk EXCEPT !.interrupted = TRUE, !.exit = "normal",
                        !.breaks = @ + 1]
    /\ pc' = AfterWrk
    /\ UNCHANGED <<args, sess, rc2, buf, files, queue, zombies, res>>

\* Wrk1Step with the test of line 77 lost: a chunk polled is printed
\* whatever the return code.
Wrk1Step_DrainFirst(rc, output) ==
    IF output # NoChunk THEN "print"
    ELSE IF rc # 0 THEN "raise_fixed" ELSE "return"

\* _stata_wrk1 without streaming, lines 76-84: what the loop does with the
\* chunk just polled, given the return code of the execute.
Wrk1Step(rc, output) ==
    IF output # NoChunk
    THEN IF rc # 0 THEN "raise_output" ELSE "print"
    ELSE IF rc # 0 THEN "raise_fixed" ELSE "return"

\* _stata_wrk1 without streaming, lines 75-84: one poll and what the loop
\* does with it.
Wrk1Poll ==
    /\ pc = "w_poll"
    /\ wk.fn = 1
    /\ LET output == PollChunk(buf)
           step == Wrk1Step(wk.rc, output)
       IN
       /\ buf' = AfterPoll(buf)
       /\ elog' = Append(elog, EngOp("poll", NoCmd))
       /\ pc' = CASE step = "print" -> "w_poll"
                  [] step = "return" -> AfterWrk
                  [] OTHER -> "returned"
       /\ wk' = [wk EXCEPT !.output = output,
                   !.exit = CASE step = "print" -> "none"
                              [] step = "return" -> "normal"
                              [] OTHER -> "raised"]
       /\ res' = CASE step = "raise_output" -> SystemError("text", <<output>>)
                   [] step = "raise_fixed" -> SystemError("fixed", <<>>)
                   [] OTHER -> res
       /\ out' = IF step = "print"
                 THEN Append(out, PrintNoStreaming(output, FALSE)) ELSE out
    /\ UNCHANGED <<args, sess, rc2, eng, files, outputter, queue, zombies>>

\* Wrk2FirstStep with the test of line 117 lost: an error is raised in
\* every mode.
Wrk2FirstStep_AlwaysRaises(rc, mode, output) ==
    IF rc # 0
    THEN IF rc # RC_CONT THEN "raise_output" ELSE "return"
    ELSE IF output # NoChunk THEN "loop" ELSE "return"

\* _stata_wrk2 without streaming, lines 114-124: what follows the first
\* poll, given rc2 and the mode (1: a batch, 2: mata, 3: python).
Wrk2FirstStep(rc, mode, output) ==
    IF rc # 0
    THEN IF rc # RC_CONT
         THEN IF mode # 1 THEN "print_return" ELSE "raise_output"
         ELSE "return"
    ELSE IF output # NoChunk THEN "loop" ELSE "return"

\* _stata_wrk2 without streaming, lines 114-124: the first poll, and the
\* branch on rc2.
Wrk2First ==
    /\ pc = "w_poll"
    /\ wk.fn = 2
    /\ LET output == PollChunk(buf)
           step == Wrk2FirstStep(rc2, wk.mode, output)
       IN
       /\ buf' = AfterPoll(buf)
       /\ elog' = Append(elog, EngOp("poll", NoCmd))
       /\ pc' = CASE step = "loop" -> "w_loop"
                  [] step = "raise_output" -> "returned"
                  [] OTHER -> AfterWrk
       /\ wk' = [wk EXCEPT !.output = output,
                   !.exit = CASE step = "loop" -> "none"
                              [] step = "raise_output" -> "raised"
                              [] OTHER -> "normal"]
       /\ res' = IF step = "raise_output"
                 THEN SystemError("text",
                        IF output = NoChunk THEN <<>> ELSE <<output>>)
                 ELSE res
       /\ out' = IF step = "print_return"
                 THEN Append(out, PrintInteractive(output, wk.mode)) ELSE out
    /\ UNCHANGED <<args, sess, rc2, eng, files, outputter, queue, zombies>>

\* _stata_wrk2 without streaming, lines 124-138: one turn of the loop.
Wrk2Loop ==
    /\ pc = "w_loop"
    /\ LET output_tmp == PollChunk(buf) IN
       /\ buf' = AfterPoll(buf)
       /\ elog' = Append(elog, EngOp("poll", NoCmd))
       /\ IF output_tmp = NoChunk
          THEN /\ out' = Append(out,
                    IF wk.mode # 1 THEN PrintInteractive(wk.output, wk.mode)
                    ELSE PrintNoStreaming(wk.output, TRUE))
               /\ pc' = AfterWrk
               /\ wk' = [wk EXCEPT !.exit = "normal"]
          ELSE /\ out' = Append(out,
                    IF wk.mode # 1 THEN PrintInteractive(wk.output, wk.mode)
                    ELSE PrintNoStreaming(wk.output, FALSE))
               /\ pc' = "w_loop"
               /\ wk' = [wk EXCEPT !.output = output_tmp]
    /\ UNCHANGED <<args, sess, rc2, eng, files, outputter, queue, zombies,
                   res>>

\* ------------------------------------------------------------------ run

\* The call of a worker from run: its arguments, and the place it starts.
WrkCall(fn, cmd, real_cmd, colon, mode) ==
    [NoWk EXCEPT !.fn = fn, !.cmd = cmd, !.real_cmd = real_cmd,
                 !.colon = colon, !.mode = mode]
WrkEntry(stream) == IF stream THEN "w_begin" ELSE "w_call"

\* sfi.SFIToolkit.getTempFile(): a path no file of this run has.
GetTempFile(fs) == Len(fs) + 1
WriteFile(fs, path, content) ==
    Append(fs, [path |-> path, content |-> content])

\* BatchFileContent with only the first line of the text written.
BatchFileContent_FirstLine(cmd) == SplitLines(cmd)[1]

\* What run writes to the batch's do-file, line 308: f.write(cmd).
BatchFileContent(cmd) == cmd

\* TriggerName with the tokens that end in a colon not recognised.
TriggerName_NoColon(input_cmd) ==
    IF input_cmd = S_mata THEN "mata"
    ELSE IF input_cmd = S_python THEN "python"
    ELSE "none"

\* The trigger token a trimmed line is, lines 205 and 246, as echoed by
\* lines 210 and 251.
TriggerName(input_cmd) ==
    IF input_cmd = S_mata THEN "mata"
    ELSE IF input_cmd = S_mataC THEN "mata:"
    ELSE IF input_cmd = S_python THEN "python"
    ELSE IF input_cmd = S_pythonC THEN "python:"
    ELSE "none"

\* RunPrologue with the clear of line 196 moved behind "qui _gr_list on".
RunPrologue_ClearLast(cmds, inline) ==
    (IF Len(cmds) > 0 /\ inline
     THEN <<EngOp("exec", GrList("gr_on"))>> ELSE <<>>)
    \o <<EngOp("clear", NoCmd)>>

\* The engine operations of lines 196-202 and 303-304: the clear of the
\* output buffer, then "qui _gr_list on" when inline.
RunPrologue(cmds, inline) ==
    <<EngOp("clear", NoCmd)>> \o
    (IF Len(cmds) > 0 /\ inline
     THEN <<EngOp("exec", GrList("gr_on"))>> ELSE <<>>)

\* OpsBeforeInlineCheck with the clear of line 196 ahead of the check.
OpsBeforeInlineCheck_Clear == <<EngOp("clear", NoCmd)>>

\* The engine operations run issues before it checks inline, lines
\* 187-194: none.
OpsBeforeInlineCheck == <<>>

\* run(cmd, quietly, echo, inline), lines 187-313, up to its first wait:
\* the worker's execute, or the first line of a nested session.
RunCall(cmd, quietly, echo, inl, grshow, stream) ==
    /\ pc = "idle"
    /\ out' = IF inl # "bad" /\ Len(SplitLines(cmd)) = 1
                 /\ TriggerName(Strip(SplitLines(cmd)[1])) # "none"
              THEN <<Printed("echo", NoChunk,
                             TriggerName(Strip(SplitLines(cmd)[1]))),
                     Printed("banner", NoChunk,
                       IF Strip(SplitLines(cmd)[1]) \in {S_mata, S_mataC}
                       THEN "mata" ELSE "python")>>
              ELSE <<>>
    /\ IF inl = "bad"
       THEN /\ args' = [cmd |-> cmd, quietly |-> quietly, inline |-> FALSE,
                        stream |-> stream]
            /\ res' = [outcome |-> "TypeError", kind |-> "none",
                       payload |-> <<>>]
            /\ pc' = "returned"
            /\ wk' = NoWk
            /\ sess' = NoSess
            /\ elog' = OpsBeforeInlineCheck
            /\ files' = <<>>
            /\ UNCHANGED <<buf, eng>>
       ELSE LET inline == IF inl = "None" THEN grshow ELSE inl = "True"
                cmds == SplitLines(cmd)
            IN
            /\ args' = [cmd |-> cmd, quietly |-> quietly, inline |-> inline,
                        stream |-> stream]
            /\ buf' = <<>>
            /\ eng' = NoEng
            /\ elog' = RunPrologue(cmds, inline)
            /\ IF Len(cmds) = 0
               THEN /\ res' = [outcome |-> "ok", kind |-> "none",
                               payload |-> <<>>]
                    /\ pc' = "returned"
                    /\ wk' = NoWk
                    /\ sess' = NoSess
                    /\ files' = <<>>
               ELSE IF Len(cmds) = 1
               THEN LET input_cmd == Strip(cmds[1]) IN
                    /\ res' = NoRes
                    /\ files' = <<>>
                    /\ IF input_cmd \in {S_mata, S_mataC}
                       THEN /\ sess' = [NoSess EXCEPT
                                   !.kind = "mata",
                                   !.input_cmd = input_cmd,
                                   !.has_colon = (input_cmd = S_mataC),
                                   !.inprompt = P_mata1,
                                   !.shown = P_mata1]
                            /\ wk' = NoWk
                            /\ pc' = "s_read"
                       ELSE IF input_cmd \in {S_python, S_pythonC}
                       THEN /\ sess' = [NoSess EXCEPT
                                   !.kind = "python",
                                   !.input_cmd = input_cmd,
                                   !.has_colon = (input_cmd = S_pythonC),
                                   !.inprompt = P_py1,
                                   !.shown = P_py1]
                            /\ wk' = NoWk
                            /\ pc' = "s_read"
                       ELSE /\ sess' = NoSess
                            /\ wk' = WrkCall(1, Direct(quietly, cmds[1], echo),
                                             <<>>, FALSE, 0)
                            /\ pc' = WrkEntry(stream)
               ELSE LET tmpf == GetTempFile(<<>>) IN
                    /\ res' = NoRes
                    /\ sess' = NoSess
                    /\ files' = WriteFile(<<>>, tmpf, BatchFileContent(cmd))
                    /\ wk' = WrkCall(2, Include(quietly, tmpf), <<>>, FALSE, 1)
                    /\ pc' = WrkEntry(stream)
    /\ UNCHANGED <<rc2, outputter, queue, zombies>>

\* run, lines 315-324: after the worker or the session, "qui _gr_list off"
\* when inline; then run returns.
RunFinish ==
    /\ pc = "r_finish"
    /\ elog' = IF args.inline
               THEN Append(elog, EngOp("exec", GrList("gr_off"))) ELSE elog
    /\ res' = [outcome |-> "ok", kind |-> "none", payload |-> <<>>]
    /\ pc' = "returned"
    /\ UNCHANGED <<args, wk, sess, rc2, buf, eng, out, files, outputter,
                   queue, zombies>>

\* ------------------------------------------------------------- sessions

\* codeop.compile_command(source, '<input>', 'single') on the session's
\* small language of brackets: "code" for a complete statement, "none"
\* (None) for an incomplete one, "error" for a SyntaxError.
CompileCommand(source) ==
    IF Count(source, ")") > Count(source, "(") THEN "error"
    ELSE IF Count(source, "(") > Count(source, ")") THEN "none"
    ELSE "code"

\* The unit's do-file, lines 222-226 and 277-281.
UnitFile(input_cmd, incmds1) == input_cmd \o <<NL>> \o incmds1 \o S_end

\* SessionEnd with the separator displayed twice.
SessionEnd_Twice(o) ==
    Append(Append(o, Printed("hline", NoChunk, "")),
           Printed("hline", NoChunk, ""))

\* SessionEnd with the displayln lost.
SessionEnd_Silent(o) == o

\* The else clause of the session loops, lines 244-245 and 295-296:
\* sfi.SFIToolkit.displayln("{hline}").
SessionEnd(o) == Append(o, Printed("hline", NoChunk, ""))

\* Echoed with the prompt left out.
Echoed_NoPrompt(inprompt, incmd) == incmd

\* incmd = inprompt + incmd, lines 219 and 259: the line as it goes into
\* the transcript incmds2.
Echoed(inprompt, incmd) == inprompt \o incmd

\* The mata loop, lines 212-231: a line is read at the prompt shown; `end`
\* leaves the loop through its else clause, any other line is staged and
\* handed to _stata_wrk2.
MataRead(line) ==
    /\ pc = "s_read"
    /\ sess.kind = "mata"
    /\ Strip(line) # S_end => sess.typed < MaxLines
    /\ LET incmd == Strip(line) IN
       IF incmd = S_end
       THEN /\ out' = SessionEnd(out)
            /\ sess' = [sess EXCEPT !.closed = TRUE, !.did = "end"]
            /\ pc' = "r_finish"
            /\ UNCHANGED <<wk, files>>
       ELSE LET incmds1 == sess.incmds1 \o incmd \o <<NL>>
                incmds2 == sess.incmds2
                             \o Echoed(sess.inprompt, incmd \o <<NL>>)
                tmpf == GetTempFile(files)
            IN
            /\ sess' = [sess EXCEPT !.incmds1 = incmds1, !.incmds2 = incmds2,
                                    !.typed = @ + 1, !.units = @ + 1,
                                    !.did = "none"]
            /\ files' = WriteFile(files, tmpf,
                                  UnitFile(sess.input_cmd, incmds1))
            /\ wk' = WrkCall(2, Include(args.quietly, tmpf), incmds2,
                             sess.has_colon, 2)
            /\ pc' = WrkEntry(args.stream)
            /\ out' = out
    /\ UNCHANGED <<args, rc2, buf, eng, elog, outputter, queue, zombies, res>>

\* AfterUnitSource with the assignments of lines 241-242 and 292-293
\* lost.
AfterUnitSource_Kept(did, acc) == acc

\* What the loops keep of incmds1 and of incmds2 after a unit: nothing
\* when a new unit starts, lines 241-242 and 292-293; all of it otherwise.
AfterUnitSource(did, acc) == IF did = "reset" THEN <<>> ELSE acc

\* MataAfterUnit with the test of line 234 lost: every non-zero code
\* leaves the loop.
MataAfterUnit_NoContinuation(rc) == IF rc # 0 THEN "break" ELSE "reset"

\* MataAfterUnit with the break of line 235 replaced by the reset of lines
\* 240-243: an error starts a new unit.
MataAfterUnit_ErrorResets(rc) ==
    IF rc = RC_CONT THEN "continue" ELSE "reset"

\* The mata loop, lines 233-243: what the loop does after a unit, given
\* rc2: leave ("break"), read on at the continuation prompt ("continue"),
\* or start a new unit at the primary prompt ("reset").
MataAfterUnit(rc) ==
    IF rc # 0 THEN (IF rc # RC_CONT THEN "break" ELSE "continue")
    ELSE "reset"

\* The mata loop, lines 233-243: what follows the worker's return is
\* decided by the global rc2.
MataAfter ==
    /\ pc = "s_after"
    /\ sess.kind = "mata"
    /\ LET did == MataAfterUnit(rc2) IN
       /\ pc' = IF did = "break" THEN "r_finish" ELSE "s_read"
       /\ sess' = CASE did = "break" -> [sess EXCEPT !.did = did]
                    [] did = "continue" ->
                         [sess EXCEPT !.did = did, !.inprompt = P_mata2,
                                      !.shown = P_mata2]
                    [] OTHER ->
                         [sess EXCEPT !.did = did,
                                      !.incmds1 = AfterUnitSource(did, @),
                                      !.incmds2 = AfterUnitSource(did, @),
                                      !.inprompt = P_mata1,
                                      !.shown = P_mata1]
    /\ UNCHANGED <<args, wk, rc2, buf, eng, elog, out, files, outputter,
                   queue, zombies, res>>

\* PyNeedsMore with a SyntaxError taken for an incomplete statement.
PyNeedsMore_OrError(r) == r \in {"none", "error"}

\* The python loop, line 273, `if res is None`: whether the loop reads a
\* further line before it stages the unit.
PyNeedsMore(r) == r = "none"

\* The python loop, lines 253-286: a line is read at the prompt shown;
\* `end` leaves the loop; otherwise the line is accumulated and, unless
\* the echoed line starts with `stata:`, the accumulated source is given
\* to compile_command.
PyRead(line) ==
    /\ pc = "s_read"
    /\ sess.kind = "python"
    /\ line # S_end => sess.typed < MaxLines
    /\ IF line = S_end
       THEN /\ out' = SessionEnd(out)
            /\ sess' = [sess EXCEPT !.closed = TRUE, !.did = "end"]
            /\ pc' = "r_finish"
            /\ UNCHANGED <<wk, files>>
       ELSE LET acc1 == sess.incmds1 \o line
                incmd == Echoed(sess.inprompt, line)
                acc2 == sess.incmds2 \o incmd
                checked == Prefix(incmd, 6) # S_stataC
                compiled == IF checked THEN CompileCommand(acc1) ELSE "skip"
                raised == compiled = "error"
                incmds1 == IF checked /\ ~raised THEN acc1 \o <<NL>> ELSE acc1
                incmds2 == IF checked /\ ~raised THEN acc2 \o <<NL>> ELSE acc2
                tmpf == GetTempFile(files)
            IN
            /\ out' = out
            /\ IF PyNeedsMore(compiled)
               THEN /\ sess' = [sess EXCEPT !.incmds1 = incmds1,
                                  !.incmds2 = incmds2, !.typed = @ + 1,
                                  !.inprompt = P_py2, !.shown = P_py2,
                                  !.did = "more"]
                    /\ pc' = "s_read"
                    /\ UNCHANGED <<wk, files>>
               ELSE /\ sess' = [sess EXCEPT !.incmds1 = incmds1,
                                  !.incmds2 = incmds2, !.typed = @ + 1,
                                  !.units = @ + 1, !.did = "none"]
                    /\ files' = WriteFile(files, tmpf,
                                          UnitFile(sess.input_cmd, incmds1))
                    /\ wk' = WrkCall(2, Include(args.quietly, tmpf), incmds2,
                                     sess.has_colon, 3)
                    /\ pc' = WrkEntry(args.stream)
    /\ UNCHANGED <<args, rc2, buf, eng, elog, outputter, queue, zombies, res>>

\* The python loop, lines 288-294: what the loop does after a unit, given
\* rc2.
PyAfterUnit(rc) == IF rc # 0 THEN "break" ELSE "reset"

\* The python loop, lines 288-294.
PyAfter ==
    /\ pc = "s_after"
    /\ sess.kind = "python"
    /\ LET did == PyAfterUnit(rc2) IN
       /\ pc' = IF did = "break" THEN "r_finish" ELSE "s_read"
       /\ sess' = IF did = "break" THEN [sess EXCEPT !.did = did]
                  ELSE [sess EXCEPT !.did = did,
                                    !.incmds1 = AfterUnitSource(did, @),
                                    !.incmds2 = AfterUnitSource(did, @),
                                    !.inprompt = P_py1,
                                    !.shown = P_py1]
    /\ UNCHANGED <<args, wk, rc2, buf, eng, elog, out, files, outputter,
                   queue, zombies, res>>

\* Control is back with the caller of run, which has seen how the call
\* ended.  What was recorded of the call is dropped; what the process keeps
\* stays: rc2, the engine's buffer, and the outputter threads that were
\* told to stop and have not ended yet.  The worker's locals are gone.
CallerResumes ==
    /\ pc = "returned"
    /\ pc' = "idle"
    /\ args' = NoArgs
    /\ wk' = NoWk
    /\ sess' = NoSess
    /\ eng' = NoEng
    /\ elog' = <<>>
    /\ out' = <<>>
    /\ files' = <<>>
    /\ res' = NoRes
    /\ queue' = <<>>
    /\ outputter' = NoOutputter
    /\ zombies' = zombies + StillAlive(outputter)
    /\ UNCHANGED <<rc2, buf>>

\* -------------------------------------------------------- specification

Next ==
    \/ \E cmd \in Cmds, quietly \in BOOLEAN, echo \in BOOLEAN,
          inl \in InlineArgs, grshow \in BOOLEAN, stream \in BOOLEAN :
          RunCall(cmd, quietly, echo, inl, grshow, stream)
    \/ RunFinish
    \/ CallerResumes
    \/ OutputterStart
    \/ ExecInvoke
    \/ EngineEmit
    \/ \E rc \in ReturnCodes : ExecReturn(rc)
    \/ QueuePut
    \/ JoinOutputter
    \/ KeyboardInterrupt
    \/ Wrk1Poll
    \/ Wrk2First
    \/ Wrk2Loop
    \/ OutputterTick
    \/ OutputterFinal
    \/ OutputterStop
    \/ ZombieStop
    \/ \E line \in MataLines : MataRead(line)
    \/ MataAfter
    \/ \E line \in PyLines : PyRead(line)
    \/ PyAfter

Spec == Init /\ [][Next]_vars

TypeOK ==
    /\ pc \in {"idle", "returned", "r_finish", "s_read", "s_after", "w_begin", "w_call",
               "w_exec", "w_put", "w_join", "w_poll", "w_loop"}
    /\ rc2 \in ReturnCodes
    /\ zombies \in 0..MaxZombies
    /\ Len(buf) <= MaxChunks * (MaxLines + 1)

\* ---------------------------------------------------- reading the logs

\* The places of elog at which the calling thread issued an execute, an
\* execute of the user's command or of a staged do-file, and a poll.
ExecIdx == {i \in 1..Len(elog) : elog[i].op = "exec"}
UserExecIdx ==
    {i \in ExecIdx : elog[i].cmd.verb \in {"direct", "include"}}
PollIdx == {i \in 1..Len(elog) : elog[i].op = "poll"}
BreakIdx == {i \in 1..Len(elog) : elog[i].op = "break"}

\* The chunks this run printed that the execute with serial u emitted.
PrintedOf(u) == {i \in 1..Len(out) : out[i].c.u = u}

\* The worker call at hand ran its execute to the end and was not cut
\* short: its return code is wk.rc.
Uninterrupted == wk.fn # 0 /\ ~wk.interrupted
InSession == sess.kind # "none"
AfterUnitDecided == sess.did \in {"break", "continue", "reset"}

\* The chunks the execute with serial u buffered, n of them, in the order
\* produced.
ChunkSeq(u, n) == [k \in 1..n |-> [u |-> u, k |-> k]]

\* The chunks this run printed, in the order printed.
Forwarded ==
    LET sel == SelectSeq(out, LAMBDA p : p.c # NoChunk)
    IN [i \in 1..Len(sel) |-> sel[i].c]

\* The chunks of sequence q, as a set.
Range(q) == {q[i] : i \in 1..Len(q)}

\* ---------------------------------------------------------------- C1
\* C1 (as claimed): in SingleLine and BatchFile mode, with either output
\* strategy, a run whose execute returned 3000 ends in an execution error.
C1_ContinuationFailsOutsideSession ==
    (pc = "returned" /\ Uninterrupted /\ wk.mode \in {0, 1}
       /\ wk.rc = RC_CONT)
    => res.outcome = "SystemError"

C5_JoinedOnEveryExit ==
    (args.stream /\ wk.fn # 0 /\ wk.exit # "none")
    => outputter.st = "stopped"

\* ---------------------------------------------------------------- C6
\* C6: with streaming on, a worker call that took an interrupt after its
\* outputter was started has issued the break request exactly once, has
\* told the outputter to stop, has printed the notice, and has returned
\* normally: run goes on behind the call and raises no SystemError.
C6_InterruptHandled ==
    (args.stream /\ wk.interrupted)
    => /\ wk.breaks = 1
       /\ BreakIdx # {}
       /\ Cardinality(BreakIdx) = eng.interrupts
       /\ outputter.st \in {"cancelled", "stopped"}
       /\ \E i \in 1..Len(out) : out[i].kind = "notice"
       /\ wk.exit = "normal"
       /\ res.outcome # "SystemError"
       /\ pc \in {"s_after", "s_read", "r_finish", "returned"}

C6_Witness ==
    /\ args.stream /\ wk.interrupted /\ wk.fn = 1
    /\ outputter.st = "cancelled" /\ res.outcome = "ok" /\ pc = "returned"

C8_ClearBeforeEveryExecute ==
    ~args.inline
    => /\ \A i \in UserExecIdx : i > 1 /\ elog[i - 1].op = "clear"
       /\ (~args.stream /\ wk.fn # 0 /\ wk.output # NoChunk)
          => wk.output.u = eng.serial

\* ---------------------------------------------------------------- C9
\* C9: a run of a text of two or more lines, once its arguments are
\* accepted, has written the text as it is (the same lines in the same
\* order) to one temporary file, freshly obtained, and executes nothing of
\* the user's but one include of that file: one when the run ends, never
\* one per line.
C9_BatchStagedOnce ==
    (Len(SplitLines(args.cmd)) >= 2 /\ res.outcome # "TypeError"
       /\ pc # "idle")
    => /\ Len(files) = 1
       /\ files[1].content = args.cmd
       /\ SplitLines(files[1].content) = SplitLines(args.cmd)
       /\ wk.fn = 2 /\ wk.mode = 1
       /\ wk.cmd = Include(args.quietly, files[1].path)
       /\ \A i \in UserExecIdx : elog[i].cmd = wk.cmd
       /\ Cardinality(UserExecIdx) <= 1
       /\ (pc = "returned" /\ ~wk.interrupted)
          => Cardinality(UserExecIdx) = 1

C9_Witness ==
    /\ Len(SplitLines(args.cmd)) = 2 /\ pc = "returned"
    /\ res.outcome = "ok" /\ ~wk.interrupted /\ Len(files) = 1
    /\ Cardinality(UserExecIdx) = 1

\* --------------------------------------------------------------- C10
\* C10: a run of a single line without streaming whose execute returned a
\* non-zero code has printed nothing, has polled the buffer exactly once,
\* and has raised SystemError carrying the chunk polled: the first chunk
\* the execute emitted, or the fixed message when it emitted none.
C10_SingleLineError ==
    (pc = "returned" /\ wk.fn = 1 /\ ~args.stream /\ ~wk.interrupted
       /\ wk.rc # 0)
    => /\ out = <<>>
       /\ Cardinality(PollIdx) = 1
       /\ wk.exit = "raised"
       /\ res = IF eng.emitted > 0
                THEN SystemError("text", <<[u |-> 1, k |-> 1]>>)
                ELSE SystemError("fixed", <<>>)

C10_Witness ==
    /\ pc = "returned" /\ wk.fn = 1 /\ ~args.stream /\ ~wk.interrupted
    /\ wk.rc = 498 /\ eng.emitted = MaxChunks /\ res.kind = "text"

\* --------------------------------------------------------------- C11
\* C11 (as claimed): when run has ended in SystemError, every chunk the
\* failing execute buffered has been printed or is in the error payload,
\* and none is left in the engine's buffer.
C11_NothingLeftOnError ==
    (pc = "returned" /\ res.outcome = "SystemError")
    => /\ buf = <<>>
       /\ Range(ChunkSeq(eng.serial, eng.emitted))
            \subseteq (Range(Forwarded) \cup Range(res.payload))

\* --------------------------------------------------------------- C12
\* C12 (as claimed): without streaming, once the first worker call of a
\* run has ended uninterrupted, whatever its return code, the chunks
\* printed followed by the chunks of the error payload are the chunks its
\* execute buffered, each once and in the order produced.
C12_DrainDeliversAll ==
    (~args.stream /\ Uninterrupted /\ wk.exit # "none" /\ eng.serial = 1)
    => Forwarded \o res.payload = ChunkSeq(1, eng.emitted)

\* --------------------------------------------------------------- C13
\* What the drain of _stata_wrk1, lines 75-84, delivers of the buffer b
\* given the return code: the chunks printed, the error payload, and
\* whether it raises.
RECURSIVE Wrk1Drain(_, _, _)
Wrk1Drain(rc, b, printed) ==
    LET output == PollChunk(b)
        step == Wrk1Step(rc, output)
    IN CASE step = "print" ->
              Wrk1Drain(rc, AfterPoll(b), Append(printed, output))
         [] step = "return" ->
              [printed |-> printed, payload |-> <<>>, error |-> FALSE]
         [] step = "raise_output" ->
              [printed |-> printed, payload |-> <<output>>, error |-> TRUE]
         [] OTHER ->
              [printed |-> printed, payload |-> <<>>, error |-> TRUE]

\* The same for _stata_wrk2, lines 114-138.
Wrk2Drain(rc, mode, b) ==
    LET output == PollChunk(b)
        step == Wrk2FirstStep(rc, mode, output)
        first == IF output = NoChunk THEN <<>> ELSE <<output>>
    IN CASE step = "loop" ->
              [printed |-> b, payload |-> <<>>, error |-> FALSE]
         [] step = "print_return" ->
              [printed |-> first, payload |-> <<>>, error |-> FALSE]
         [] step = "raise_output" ->
              [printed |-> <<>>, payload |-> first, error |-> TRUE]
         [] OTHER ->
              [printed |-> <<>>, payload |-> <<>>, error |-> FALSE]

\* What the non-streaming strategy delivers for the worker call at hand,
\* had its execute buffered the same chunks and returned the same code.
BlockingDrain ==
    IF wk.fn = 1 THEN Wrk1Drain(wk.rc, ChunkSeq(1, eng.emitted), <<>>)
    ELSE Wrk2Drain(wk.rc, wk.mode, ChunkSeq(1, eng.emitted))

\* The first worker call of the run has ended, uninterrupted.
FirstCallEnded == Uninterrupted /\ wk.exit # "none" /\ eng.serial = 1

\* The non-streaming runs deliver what BlockingDrain computes.
BlockingDrainIsTheDrain ==
    (~args.stream /\ FirstCallEnded)
    => /\ Forwarded = BlockingDrain.printed
       /\ res.payload = BlockingDrain.payload
       /\ (wk.exit = "raised") = BlockingDrain.error

\* C13 (as claimed), for SingleLine and BatchFile mode and a return code
\* other than 3000: with either strategy, the first worker call of a run,
\* ended uninterrupted, has delivered to the caller (printed, or carried
\* in the error payload) the text the non-streaming strategy delivers for
\* the same chunks and return code, and has raised exactly when it does.
C13_StrategiesAgree ==
    (FirstCallEnded /\ wk.mode \in {0, 1} /\ wk.rc # RC_CONT)
    => /\ Forwarded \o res.payload
            = BlockingDrain.printed \o BlockingDrain.payload
       /\ (wk.exit = "raised") = BlockingDrain.error

\* --------------------------------------------------------------- C14
\* C14: in a python session, after a line other than `end` was read and
\* until the unit's return code is acted on: if compile_command reports
\* the accumulated source incomplete, no file was written and no worker
\* call made for it, the source is kept, and a line is read next at the
\* continuation prompt "... "; if it reports a complete statement or
\* raises a SyntaxError, the source was staged in a fresh file and handed
\* to _stata_wrk2 as an include.
C14_StagedIffComplete ==
    (sess.kind = "python" /\ sess.typed > 0 /\ sess.did \in {"more", "none"})
    => /\ Len(files) = sess.units
       /\ IF CompileCommand(sess.incmds1) = "none"
          THEN /\ sess.did = "more"
               /\ pc = "s_read"
               /\ sess.shown = P_py2 /\ sess.inprompt = P_py2
               /\ sess.incmds1 # <<>>
               /\ wk.fn = 0 \/ wk.exit # "none"
          ELSE /\ sess.did = "none"
               /\ sess.units > 0
               /\ files[Len(files)].content
                    = UnitFile(sess.input_cmd, sess.incmds1)
               /\ wk.fn = 2 /\ wk.mode = 3
               /\ wk.cmd = Include(args.quietly, files[Len(files)].path)

C14_Witness ==
    /\ sess.kind = "python" /\ sess.did = "more" /\ sess.units = 1
    /\ sess.incmds1 = <<"(", NL>> /\ pc = "s_read"

\* --------------------------------------------------------------- C15
\* C15 (as claimed): in a python session a unit whose first line begins
\* with `stata:` is staged and executed at once: the loop never waits at
\* the continuation prompt for more of it.
C15_EscapeBypassesChecker ==
    (sess.kind = "python" /\ Prefix(sess.incmds1, 6) = S_stataC)
    => sess.did # "more"

\* --------------------------------------------------------------- C16
\* C16: in a session of either kind, once `end` was read the session is
\* over: run goes to its end, no file is written and no worker call made
\* after that line, and the closing separator was printed exactly once, as
\* the last thing printed.  When `end` was the first line, no file was
\* written and no include executed in the whole session.
C16_EndClosesSession ==
    (InSession /\ sess.did = "end")
    => /\ sess.closed
       /\ pc \in {"r_finish", "returned"}
       /\ res.outcome # "SystemError"
       /\ Cardinality({i \in 1..Len(out) : out[i].kind = "hline"}) = 1
       /\ out[Len(out)].kind = "hline"
       /\ Len(files) = sess.units
       /\ eng.serial <= sess.units
       /\ Cardinality(UserExecIdx) = eng.serial
       /\ wk.fn = 0 \/ wk.exit # "none"
       /\ sess.typed = 0 => files = <<>> /\ UserExecIdx = {} /\ wk.fn = 0

C16_Witness ==
    /\ sess.kind = "mata" /\ sess.did = "end" /\ sess.typed = 0
    /\ pc = "returned" /\ res.outcome = "ok" /\ files = <<>>

\* --------------------------------------------------------------- C17
\* C17 (as claimed): in a session of either kind, with either strategy,
\* when an interrupt cut short the execute of a unit, the notice was
\* printed, no error is raised, and the loop reads a line next at a
\* session prompt, whatever rc2 earlier executes left.
C17_InterruptKeepsSession ==
    (InSession /\ wk.interrupted /\ wk.rc = 0 /\ AfterUnitDecided
       /\ Len(elog) \in BreakIdx /\ (Len(elog) - 1) \in UserExecIdx)
    => /\ \E i \in 1..Len(out) : out[i].kind = "notice"
       /\ res.outcome # "SystemError"
       /\ sess.did \in {"reset", "continue"}
       /\ pc = "s_read"

\* --------------------------------------------------------------- C18
\* C18 (as claimed): when run has ended, however it ended, every execute
\* of "qui _gr_list on" it issued is followed by an execute of
\* "qui _gr_list off".
C18_CaptureDisabledOnExit ==
    pc = "returned"
    => \A i \in ExecIdx :
         elog[i].cmd = GrList("gr_on")
         => \E j \in ExecIdx : j > i /\ elog[j].cmd = GrList("gr_off")

\* --------------------------------------------------------------- C19
\* C19: a run that ended in TypeError, whatever its command text, issued
\* no engine operation (no clear, no execute, no _gr_list), wrote no
\* file, printed nothing and made no worker call.
C19_MisuseBeforeEngine ==
    res.outcome = "TypeError"
    => /\ pc = "returned"
       /\ elog = <<>>
       /\ files = <<>>
       /\ out = <<>>
       /\ wk = NoWk /\ sess = NoSess

\* A text of two lines refused while an earlier run's chunk is still in
\* the buffer: the buffer was not cleared.
C19_Witness ==
    /\ res.outcome = "TypeError" /\ Len(SplitLines(args.cmd)) = 2
    /\ buf # <<>> /\ pc = "returned"

\* --------------------------------------------------------------- C20
\* C20 (as claimed): a run of a text without lines, its arguments
\* accepted, has issued no engine operation of any kind, written no file
\* and printed nothing.
C20_EmptyIsNoOp ==
    (pc = "returned" /\ SplitLines(args.cmd) = <<>>
       /\ res.outcome = "ok")
    => /\ elog = <<>>
       /\ files = <<>>
       /\ out = <<>>

\* --------------------------------------------------------------- C21
\* C21 (as claimed): across run calls, cancelled ones included, at most
\* one outputter thread is alive at any moment, and no outputter of an
\* earlier worker call is alive while an execute is in flight.
C21_OnePollerOneExecute ==
    /\ zombies + StillAlive(outputter) <= 1
    /\ eng.busy => zombies = 0

\* --------------------------------------------------------------- C22
\* C22: with streaming on, in a worker call that is not interrupted: the
\* execute is invoked only with the outputter running; until the execute
\* has returned nothing is on the queue; the return code is then put, once;
\* the worker waits until the outputter has taken it and stopped; and only
\* then does it return or raise.  The queue never holds more than one
\* item.
C22_StreamingOrder ==
    (args.stream /\ wk.fn # 0 /\ ~wk.interrupted)
    => /\ Len(queue) <= 1
       /\ pc = "w_begin" => ~eng.busy /\ wk.exit = "none"
       /\ pc \in {"w_call", "w_exec", "w_put"}
            => outputter.st = "running" /\ queue = <<>>
       /\ eng.busy <=> pc = "w_exec"
       /\ pc = "w_put" => Len(elog) \in UserExecIdx
       /\ pc = "w_join"
            => \/ outputter.st = "running" /\ queue = <<wk.rc>>
               \/ outputter.st = "stopped" /\ queue = <<>>
                    /\ outputter.rc = wk.rc
       /\ wk.exit # "none"
            => /\ outputter.st = "stopped" /\ queue = <<>>
               /\ outputter.rc = wk.rc
               /\ pc \notin {"w_begin", "w_call", "w_exec", "w_put", "w_join"}

C22_Witness ==
    /\ args.stream /\ wk.fn = 2 /\ ~wk.interrupted /\ wk.exit = "normal"
    /\ outputter.st = "stopped" /\ outputter.rc = RC_CONT
    /\ sess.kind = "mata" /\ pc = "s_read"

\* --------------------------------------------------------------- C23
\* C23 (as claimed): in a session, what the loop did after a unit is what
\* the return code of the unit's own execute calls for.  wk.rc is that
\* code; it is 0 in a call whose execute was cut short before it returned
\* one.
C23_DecisionFromOwnCode ==
    (InSession /\ AfterUnitDecided /\ wk.fn = 2)
    => sess.did = IF sess.kind = "mata" THEN MataAfterUnit(wk.rc)
                  ELSE PyAfterUnit(wk.rc)

\* --------------------------------------------------------------- C24
\* C24 (as claimed): in a session of either kind every do-file written
\* for a unit is a fresh file whose first line is the session's header,
\* whose last line is exactly `end`, and whose lines in between, for the
\* unit being executed, are the lines of the accumulated source in input
\* order.
C24_UnitFileShape ==
    InSession
    => \A i \in 1..Len(files) :
         LET ls == SplitLines(files[i].content) IN
         /\ \A j \in 1..Len(files) : j # i => files[j].path # files[i].path
         /\ Len(ls) >= 2
         /\ ls[1] = sess.input_cmd
         /\ ls[Len(ls)] = S_end
         /\ (i = Len(files) /\ sess.did = "none")
            => SubSeq(ls, 2, Len(ls) - 1) = SplitLines(sess.incmds1)

\* --------------------------------------------------------------- C25
\* C25: in a session of either kind, whenever the loop waits for a line,
\* the prompt shown is the kind's primary or continuation prompt; at the
\* primary prompt the accumulated source (incmds1) and the transcript
\* (incmds2) are both empty, at the continuation prompt both are
\* non-empty.
C25_PromptAndAccumulation ==
    (InSession /\ pc = "s_read")
    => LET primary == IF sess.kind = "mata" THEN P_mata1 ELSE P_py1
           continuation == IF sess.kind = "mata" THEN P_mata2 ELSE P_py2
       IN /\ sess.shown \in {primary, continuation}
          /\ sess.inprompt = sess.shown
          /\ sess.shown = primary
               => sess.incmds1 = <<>> /\ sess.incmds2 = <<>>
          /\ sess.shown = continuation
               => sess.incmds1 # <<>> /\ sess.incmds2 # <<>>

\* A session back at its primary prompt after a unit, and one at its
\* continuation prompt.
C25_Witness ==
    /\ InSession /\ pc = "s_read" /\ sess.units = 1
    /\ \/ sess.kind = "python" /\ sess.did = "reset" /\ sess.shown = P_py1
       \/ sess.kind = "mata" /\ sess.did = "continue"
            /\ sess.shown = P_mata2

\* --------------------------------------------------------------- C26
\* C26: in a session of either kind the transcript (incmds2) has as many
\* lines as the accumulated source (incmds1), in the same order, and each
\* is the source line behind the prompt that was shown when it was read:
\* the primary prompt for the first line of the unit, the continuation
\* prompt for every later one.  The transcript is what _stata_wrk2 is
\* handed as real_cmd.
C26_TranscriptEchoesSource ==
    InSession
    => LET primary == IF sess.kind = "mata" THEN P_mata1 ELSE P_py1
           continuation == IF sess.kind = "mata" THEN P_mata2 ELSE P_py2
           src == SplitLines(sess.incmds1)
           tr == SplitLines(sess.incmds2)
       IN /\ Len(tr) = Len(src)
          /\ \A j \in 1..Len(tr) :
               tr[j] = (IF j = 1 THEN primary ELSE continuation) \o src[j]
          /\ (wk.fn = 2 /\ sess.did = "none") => wk.real_cmd = sess.incmds2

C26_Witness ==
    /\ sess.kind = "python" /\ sess.did = "none" /\ wk.fn = 2
    /\ wk.exit = "none" /\ wk.real_cmd = sess.incmds2
    /\ SplitLines(sess.incmds2) = <<P_py1 \o <<"(">>, P_py2 \o <<")">> >>

\* --------------------------------------------------------------- C27
\* A run call whose arguments were accepted.
Accepted == pc # "idle" /\ res.outcome # "TypeError"

\* What run does with a text of one line or more.  One line that is,
\* trimmed, `mata`, `mata:`, `python` or `python:`: the session of that
\* kind, the token echoed first, and nothing executed for the user but
\* includes of the units' files.  Any other single line: _stata_wrk1 with
\* the line as it is, no session, no file.  Two lines or more, a trigger
\* among them or not: one file, _stata_wrk2 in mode 1, no session.
ClassifiedByShape ==
    LET cmds == SplitLines(args.cmd)
        trimmed == Strip(cmds[1])
    IN /\ (Len(cmds) = 1 /\ trimmed \in {S_mata, S_mataC})
          => /\ sess.kind = "mata" /\ sess.input_cmd = trimmed
             /\ wk.fn \in {0, 2} /\ (wk.fn = 2 => wk.mode = 2)
       /\ (Len(cmds) = 1 /\ trimmed \in {S_python, S_pythonC})
          => /\ sess.kind = "python" /\ sess.input_cmd = trimmed
             /\ wk.fn \in {0, 2} /\ (wk.fn = 2 => wk.mode = 3)
       /\ (Len(cmds) = 1
             /\ trimmed \in {S_mata, S_mataC, S_python, S_pythonC})
          => /\ Len(out) >= 2
             /\ out[1].kind = "echo" /\ out[2].kind = "banner"
             /\ \A i \in UserExecIdx : elog[i].cmd.verb = "include"
             /\ Len(files) = sess.units
       /\ (Len(cmds) = 1
             /\ trimmed \notin {S_mata, S_mataC, S_python, S_pythonC})
          => /\ ~InSession /\ files = <<>>
             /\ wk.fn = 1 /\ wk.cmd.verb = "direct"
             /\ wk.cmd.text = cmds[1] /\ wk.cmd.quiet = args.quietly
             /\ \A i \in UserExecIdx : elog[i].cmd = wk.cmd
       /\ Len(cmds) >= 2
          => /\ ~InSession /\ Len(files) = 1
             /\ wk.fn = 2 /\ wk.mode = 1
             /\ wk.cmd = Include(args.quietly, files[1].path)
             /\ \A i \in UserExecIdx : elog[i].cmd = wk.cmd

C28_EndAtContinuation ==
    (InSession /\ sess.did = "end"
       /\ sess.shown = (IF sess.kind = "mata" THEN P_mata2 ELSE P_py2))
    => /\ sess.closed
       /\ pc \in {"r_finish", "returned"}
       /\ res.outcome # "SystemError"
       /\ Cardinality({i \in 1..Len(out) : out[i].kind = "hline"}) = 1
       /\ out[Len(out)].kind = "hline"
       /\ sess.incmds1 # <<>>
       /\ Len(files) = sess.units
       /\ eng.serial <= sess.units
       /\ wk.fn = 0 \/ wk.exit # "none"
       /\ sess.kind = "python"
          => \A i \in 1..Len(files) :
               files[i].content # UnitFile(sess.input_cmd, sess.incmds1)
       /\ sess.kind = "mata"
          => /\ sess.units > 0 /\ wk.fn = 2
             /\ files[Len(files)].content
                  = UnitFile(sess.input_cmd, sess.incmds1)

C28_Witness ==
    /\ sess.kind = "python" /\ sess.did = "end" /\ sess.shown = P_py2
    /\ sess.incmds1 = <<"(", NL>> /\ files = <<>> /\ pc = "returned"

====
